---- MODULE Spec2Model ----
(***************************************************************************)
(* Call coordination of the hackathon dashboard backend:                   *)
(* Backend/src/services/call-log.service.ts (CallLogService) behind        *)
(* Backend/src/controllers/call-log.controller.ts (CallLogController).     *)
(* Every store round trip (an awaited prisma call) is one atomic step; a   *)
(* handler that awaits twice is two steps, so that requests of different   *)
(* callers interleave between a handler's read and its write.              *)
(* Time is Date.now() in milliseconds; the clock advances in steps of half  *)
(* the lock timeout, so that a lock is seen younger than, exactly as old   *)
(* as, and older than the timeout.                                         *)
(* getCallStats is modelled over the CallLog and Team tables, and           *)
(* CSVProcessingService.normalizeTeamData                                   *)
(* (Backend/src/services/sync/csv-processing.service.ts) as a function of  *)
(* the parsed CSV rows, whose fields are sequences of characters.          *)
(***************************************************************************)
EXTENDS Integers, Sequences, FiniteSets, TLC

\* ---------------------------------------------------------------- bounds
MaxTicks == 3

\* the longest CSV given to normalizeTeamData
MaxRows == 3

\* the number of uploads in a run of the import
MaxImports == 2

\* the longest recipient list of a bulk dispatch
MaxRecipients == 5

\* ------------------------------------------------------------- constants
LOCK_TIMEOUT_MINUTES == 5

\* LOCK_TIMEOUT_MINUTES * 60 * 1000, the timeout in milliseconds
LockTimeoutMs == LOCK_TIMEOUT_MINUTES * 60 * 1000

\* granularity of the clock
TickMs == LockTimeoutMs \div 2

Teams == {"T1", "T2"}
Callers == {"Alice", "Bob"}

\* the teams the clients call and the callers at work: one team shared by two
\* callers, or two teams called by one caller
SharedTeam == [teams |-> {"T1"}, callers |-> Callers]
OneCaller == [teams |-> Teams, callers |-> {"Bob"}]

\* the caller whose client goes away while it holds a lock
Abandoner == "Alice"

Null == "null"
Undefined == "undefined"
NullTime == -1

CallStatus ==
    {"NOT_CALLED", "BEING_CALLED", "CALLED_WILL_VERIFY", "CALLED_NOT_PICKED", "CALLED_REJECTED"}
Outcomes == {"CALLED_WILL_VERIFY", "CALLED_NOT_PICKED", "CALLED_REJECTED"}

\* request bodies the clients send
CallerNameInputs(c) == {c, ""}
NotesInputs == {Undefined, "", "n1"}

\* bodies of POST /call-log/teams/:teamId/status: every outcome with every
\* notes value, the two statuses the controller refuses, and a missing name
StatusBodies(c) ==
    [status : Outcomes, callerName : {c}, notes : NotesInputs]
    \cup [status : CallStatus \ Outcomes, callerName : {c}, notes : {Undefined}]
    \cup [status : {"CALLED_WILL_VERIFY"}, callerName : {""}, notes : {Undefined}]

\* JavaScript truthiness of a string | null | undefined value
Truthy(s) == s # Null /\ s # Undefined /\ s # ""

\* `x || null`
OrNull(s) == IF Truthy(s) THEN s ELSE Null

\* ------------------------------------------------------------------ state
VARIABLES
    now,          \* Date.now(), in milliseconds
    callLog,      \* the CallLog table: one optional row per team
    req,          \* per caller: the handler in flight and what it has read
    response,     \* the last HTTP answer sent, and the caller it went to
    acquiredAt,   \* history: time of the caller's latest successful acquire, while it is
                  \* younger than the timeout and not given up by the caller
    priorOutcome, \* history: the last outcome recorded for the team by updateCallStatus
    recording,    \* whether the two history variables are kept (SpecHistory) or not (Spec)
    scope,        \* the teams that are called and the callers at work
    verification, \* the Team table: verificationStatus of each team
    callStats,    \* the last answer of getCallStats
    rows,         \* the parsed CSV rows handed to normalizeTeamData
    normalized,   \* what normalizeTeamData returned for them
    store,        \* the Team, TeamMember and CallLog tables as importTeams works on them
    imp,          \* the importTeams call in flight: its arguments, loop position and counters
    importResult, \* what the last finished importTeams returned, and for which upload
    storeFails,   \* whether a store operation of importTeams may throw
    phoneInput,   \* the string handed to normalizePhone
    phoneResult,  \* what normalizePhone returned for it
    dispatch,     \* the bulk email dispatch in flight: recipients, loop position, counters
    commLog,      \* the Communication Log table
    mailTrace     \* what the dispatch has done so far: provider requests and delays

callVars == <<now, callLog, req, response, acquiredAt, priorOutcome, recording, scope>>

\* the state outside call coordination
statsVars == <<verification, callStats>>
csvVars == <<rows, normalized>>
importVars == <<store, imp, importResult, storeFails>>

phoneVars == <<phoneInput, phoneResult>>
mailVars == <<dispatch, commLog, mailTrace>>

otherVars == <<statsVars, csvVars, importVars, phoneVars, mailVars>>

vars == <<callVars, otherVars>>

\* the value a history variable takes in a step
Kept(new, old) == IF recording THEN new ELSE old

\* a team without a CallLog row (findUnique returns null)
NoLog ==
    [exists |-> FALSE, callStatus |-> "NOT_CALLED", lockedBy |-> Null, lockedAt |-> NullTime,
     calledBy |-> Null, notes |-> Null, lastCalledAt |-> NullTime]

Idle == [pc |-> "idle", team |-> Null, existingLog |-> NoLog]

Answer(c, op, t, http, success, message, holder, existingLog) ==
    [caller |-> c, op |-> op, team |-> t, http |-> http, success |-> success,
     message |-> message, holder |-> holder, existingLog |-> existingLog]

NoResponse == Answer(Null, "none", Null, 0, FALSE, "", Null, NoLog)

InitStore ==
    /\ now = 0
    /\ callLog = [t \in Teams |-> NoLog]
    /\ req = [c \in Callers |-> Idle]
    /\ response = NoResponse
    /\ acquiredAt = [t \in Teams |-> [c \in Callers |-> NullTime]]
    /\ priorOutcome = [t \in Teams |-> "NOT_CALLED"]

\* the state outside call coordination, at rest
NoStats ==
    [total |-> -1, notCalled |-> 0, willVerify |-> 0, notPicked |-> 0, rejected |-> 0,
     beingCalled |-> 0]

NotNormalized == [done |-> FALSE, teams |-> <<>>, skippedRows |-> <<>>]

StatsIdle ==
    /\ verification = [t \in Teams |-> "PENDING"]
    /\ callStats = NoStats

CsvIdle ==
    /\ rows = <<>>
    /\ normalized = NotNormalized

\* no team, no member, no call log; ids are generated from 1 on
EmptyStore == [teams |-> {}, members |-> <<>>, callLogs |-> <<>>, nextKey |-> 1]

NoImport ==
    [pc |-> "idle", runs |-> 0, replaceAll |-> FALSE, teams |-> <<>>, toRemove |-> {},
     next |-> 1, newTeams |-> 0, updatedTeams |-> 0, removedTeams |-> 0, errors |-> <<>>,
     before |-> EmptyStore]

NoImportResult ==
    [done |-> FALSE, newTeams |-> 0, updatedTeams |-> 0, removedTeams |-> 0, errors |-> <<>>,
     totalTeams |-> 0, rows |-> <<>>, replaceAll |-> FALSE]

ImportIdle ==
    /\ store = EmptyStore
    /\ imp = NoImport
    /\ importResult = NoImportResult
    /\ storeFails = FALSE

NoPhoneResult == [done |-> FALSE, value |-> <<>>]

PhoneIdle ==
    /\ phoneInput = <<>>
    /\ phoneResult = NoPhoneResult

NoDispatch ==
    [pc |-> "idle", op |-> "none", recipients |-> <<>>, next |-> 1, sent |-> 0,
     failed |-> 0, errors |-> <<>>, delayMs |-> 0]

MailIdle ==
    /\ dispatch = NoDispatch
    /\ commLog = <<>>
    /\ mailTrace = <<>>

OtherIdle == StatsIdle /\ CsvIdle /\ ImportIdle /\ PhoneIdle /\ MailIdle

Init == InitStore /\ recording = FALSE /\ scope = SharedTeam /\ OtherIdle

InitHistory == InitStore /\ recording = TRUE /\ scope = SharedTeam /\ OtherIdle

\* ------------------------------------------------------- CallLogService
\* what lockTeamForCalling uses of the row it read: lockedBy and lockedAt
LockView(log) ==
    [NoLog EXCEPT !.exists = log.exists, !.lockedBy = log.lockedBy, !.lockedAt = log.lockedAt]

\* what releaseLock uses of the row it read: lockedBy, calledBy and callStatus
ReleaseView(log) ==
    [NoLog EXCEPT !.exists = log.exists, !.lockedBy = log.lockedBy,
                  !.calledBy = log.calledBy, !.callStatus = log.callStatus]

\* LockConflict comparing the age in milliseconds with the timeout in seconds
LockConflict_SecondsNotMs(existingLog, callerName, t) ==
    /\ Truthy(existingLog.lockedBy)
    /\ existingLog.lockedBy # callerName
    /\ existingLog.lockedAt # NullTime
    /\ (t - existingLog.lockedAt) < LOCK_TIMEOUT_MINUTES * 60

\* LockConflict without the staleness test
LockConflict_NoTimeout(existingLog, callerName, t) ==
    /\ Truthy(existingLog.lockedBy)
    /\ existingLog.lockedBy # callerName

\* lockTeamForCalling: the test that makes the call return a conflict
LockConflict(existingLog, callerName, t) ==
    /\ Truthy(existingLog.lockedBy)
    /\ existingLog.lockedBy # callerName
    /\ existingLog.lockedAt # NullTime
    /\ (t - existingLog.lockedAt) < LOCK_TIMEOUT_MINUTES * 60 * 1000

\* LockUpsert whose update branch leaves lockedAt as it was
LockUpsert_NoRefresh(log, callerName, t) ==
    IF log.exists
    THEN [log EXCEPT !.callStatus = "BEING_CALLED", !.lockedBy = callerName,
                     !.lockedAt = IF log.lockedAt # NullTime THEN log.lockedAt ELSE t]
    ELSE [NoLog EXCEPT !.exists = TRUE, !.callStatus = "BEING_CALLED",
                       !.lockedBy = callerName, !.lockedAt = t]

\* LockUpsert whose update branch leaves the status as it was
LockUpsert_KeepsStatus(log, callerName, t) ==
    IF log.exists
    THEN [log EXCEPT !.lockedBy = callerName, !.lockedAt = t]
    ELSE [NoLog EXCEPT !.exists = TRUE, !.callStatus = "BEING_CALLED",
                       !.lockedBy = callerName, !.lockedAt = t]

\* LockUpsert whose update branch leaves the owner as it was
LockUpsert_KeepsOwner(log, callerName, t) ==
    IF log.exists
    THEN [log EXCEPT !.callStatus = "BEING_CALLED", !.lockedAt = t]
    ELSE [NoLog EXCEPT !.exists = TRUE, !.callStatus = "BEING_CALLED",
                       !.lockedBy = callerName, !.lockedAt = t]

\* lockTeamForCalling: prisma.callLog.upsert, create and update branches
LockUpsert(log, callerName, t) ==
    IF log.exists
    THEN [log EXCEPT !.callStatus = "BEING_CALLED", !.lockedBy = callerName, !.lockedAt = t]
    ELSE [NoLog EXCEPT !.exists = TRUE, !.callStatus = "BEING_CALLED",
                       !.lockedBy = callerName, !.lockedAt = t]

\* StatusUpsert whose update branch leaves the lock fields as they were
StatusUpsert_KeepsLock(log, status, callerName, notes, t) ==
    [exists |-> TRUE, callStatus |-> status, lockedBy |-> log.lockedBy, lockedAt |-> log.lockedAt,
     calledBy |-> callerName, notes |-> OrNull(notes), lastCalledAt |-> t]

\* updateCallStatus: prisma.callLog.upsert, create and update branches
StatusUpsert(log, status, callerName, notes, t) ==
    [exists |-> TRUE, callStatus |-> status, lockedBy |-> Null, lockedAt |-> NullTime,
     calledBy |-> callerName, notes |-> OrNull(notes), lastCalledAt |-> t]

\* NotOwner testing only that somebody holds the lock
NotOwner_AnyHolder(existingLog, callerName) ==
    ~(existingLog.exists /\ Truthy(existingLog.lockedBy))

\* releaseLock: the ownership test that makes the call fail
NotOwner(existingLog, callerName) ==
    (IF existingLog.exists THEN existingLog.lockedBy ELSE Undefined) # callerName

\* releaseLock: prisma.callLog.update
ReleaseUpdate(log, existingLog) ==
    [log EXCEPT !.callStatus = IF Truthy(existingLog.calledBy)
                               THEN existingLog.callStatus ELSE "NOT_CALLED",
                !.lockedBy = Null, !.lockedAt = NullTime]

\* IsStale comparing lockedAt with the current time less the timeout in seconds
IsStale_SecondsNotMs(log, t) ==
    /\ log.exists
    /\ log.lockedAt # NullTime
    /\ log.lockedAt < t - LOCK_TIMEOUT_MINUTES * 60
    /\ log.lockedBy # Null

\* releaseStallLocks: the where clause of updateMany
IsStale(log, t) ==
    /\ log.exists
    /\ log.lockedAt # NullTime
    /\ log.lockedAt < t - LOCK_TIMEOUT_MINUTES * 60 * 1000
    /\ log.lockedBy # Null

\* releaseStallLocks resetting every locked row, whatever the age of the lock
releaseStallLocks_AllLocks(logs, t) ==
    [team \in Teams |->
        IF logs[team].exists /\ logs[team].lockedBy # Null
        THEN [logs[team] EXCEPT !.lockedBy = Null, !.lockedAt = NullTime,
                                !.callStatus = "NOT_CALLED"]
        ELSE logs[team]]

\* releaseStallLocks resetting the status of a stale row but leaving its owner
releaseStallLocks_KeepsOwner(logs, t) ==
    [team \in Teams |->
        IF IsStale(logs[team], t)
        THEN [logs[team] EXCEPT !.callStatus = "NOT_CALLED"]
        ELSE logs[team]]

\* releaseStallLocks: updateMany over the whole table
releaseStallLocks(logs, t) ==
    [team \in Teams |->
        IF IsStale(logs[team], t)
        THEN [logs[team] EXCEPT !.lockedBy = Null, !.lockedAt = NullTime,
                                !.callStatus = "NOT_CALLED"]
        ELSE logs[team]]

\* prisma.callLog.groupBy({by: ['callStatus'], _count: true}) read through
\* statMap.get(status) || 0: the number of call logs with the status
StatCount(logs, status) ==
    Cardinality({t \in Teams : logs[t].exists /\ logs[t].callStatus = status})

\* getCallStats
getCallStats(logs, teams) ==
    LET totalUnverified == Cardinality({t \in Teams : teams[t] = "PENDING"})
        calledCount == StatCount(logs, "CALLED_WILL_VERIFY")
                       + StatCount(logs, "CALLED_NOT_PICKED")
                       + StatCount(logs, "CALLED_REJECTED")
    IN [total |-> totalUnverified,
        notCalled |-> totalUnverified - calledCount - StatCount(logs, "BEING_CALLED"),
        willVerify |-> StatCount(logs, "CALLED_WILL_VERIFY"),
        notPicked |-> StatCount(logs, "CALLED_NOT_PICKED"),
        rejected |-> StatCount(logs, "CALLED_REJECTED"),
        beingCalled |-> StatCount(logs, "BEING_CALLED")]

\* ------------------------------------------------- CSVProcessingService
\* A CSV field, and every string made from one, is a sequence of characters.
UpperLetters ==
    <<"A", "B", "C", "D", "E", "F", "G", "H", "I", "J", "K", "L", "M",
      "N", "O", "P", "Q", "R", "S", "T", "U", "V", "W", "X", "Y", "Z">>

LowerLetters ==
    <<"a", "b", "c", "d", "e", "f", "g", "h", "i", "j", "k", "l", "m",
      "n", "o", "p", "q", "r", "s", "t", "u", "v", "w", "x", "y", "z">>

Digits == {"0", "1", "2", "3", "4", "5", "6", "7", "8", "9"}

\* String.prototype.toLowerCase
ToLowerCase(str) ==
    [k \in 1..Len(str) |->
        IF \E n \in 1..Len(UpperLetters) : UpperLetters[n] = str[k]
        THEN LowerLetters[CHOOSE n \in 1..Len(UpperLetters) : UpperLetters[n] = str[k]]
        ELSE str[k]]

RECURSIVE TrimStart(_)
TrimStart(str) ==
    IF str # <<>> /\ Head(str) = " " THEN TrimStart(Tail(str)) ELSE str

RECURSIVE TrimEnd(_)
TrimEnd(str) ==
    IF str # <<>> /\ str[Len(str)] = " " THEN TrimEnd(SubSeq(str, 1, Len(str) - 1)) ELSE str

\* String.prototype.trim
Trim(str) == TrimEnd(TrimStart(str))

\* `str || fallback`
OrElse(str, fallback) == IF str = <<>> THEN fallback ELSE str

StrUnknown == <<"U", "n", "k", "n", "o", "w", "n">>
StrNA == <<"N", "/", "A">>
StrTeamLeader == <<"t", "e", "a", "m", " ", "l", "e", "a", "d", "e", "r">>
StrComplete == <<"c", "o", "m", "p", "l", "e", "t", "e">>

IsDigit(ch) == ch \in Digits

\* normalizePhone
normalizePhone(phone) ==
    LET cleaned == SelectSeq(phone, IsDigit)
        startsWith91 == Len(cleaned) >= 2 /\ SubSeq(cleaned, 1, 2) = <<"9", "1">>
    IN <<"+">> \o (IF ~startsWith91 /\ Len(cleaned) = 10
                   THEN <<"9", "1">> \o cleaned
                   ELSE cleaned)

\* SkippedRow numbering the rows from 1 without the header line
SkippedRow_NoHeader(row, i, reason) ==
    [rowNumber |-> i + 1,
     candidateName |-> OrElse(Trim(row.name), StrUnknown),
     candidateEmail |-> OrElse(Trim(row.email), StrNA),
     candidatePhone |-> OrElse(Trim(row.mobile), StrNA),
     reason |-> reason]

\* normalizeTeamData: the SkippedRow pushed for the row at 0-based index i
SkippedRow(row, i, reason) ==
    [rowNumber |-> i + 2,
     candidateName |-> OrElse(Trim(row.name), StrUnknown),
     candidateEmail |-> OrElse(Trim(row.email), StrNA),
     candidatePhone |-> OrElse(Trim(row.mobile), StrNA),
     reason |-> reason]

\* normalizeTeamData: isLeader and verificationStatus of a row
IsLeaderRow(row) == ToLowerCase(row.role) = StrTeamLeader

RowStatus(row) == IF ToLowerCase(row.regStatus) = StrComplete THEN "VERIFIED" ELSE "PENDING"

\* normalizeTeamData: the member made of a row
Member(row) ==
    [fullName |-> OrElse(Trim(row.name), StrUnknown),
     email |-> ToLowerCase(Trim(row.email)),
     phone |-> normalizePhone(row.mobile),
     isLeader |-> IsLeaderRow(row)]

\* the `{}` a team without a leader row keeps as its leader
NoLeader == [unset |-> TRUE, fullName |-> <<>>, email |-> <<>>, phone |-> <<>>]

\* normalizeTeamData: the leader snapshot taken from a member
LeaderOf(member) ==
    [unset |-> FALSE, fullName |-> member.fullName, email |-> member.email,
     phone |-> member.phone]

\* teamsMap.has(teamId) / teamsMap.get(teamId): teams holds the values of the
\* Map in insertion order
HasTeam(teams, teamId) == \E k \in 1..Len(teams) : teams[k].unstopTeamId = teamId

TeamIndex(teams, teamId) == CHOOSE k \in 1..Len(teams) : teams[k].unstopTeamId = teamId

\* normalizeTeamData: the aggregate set for the first accepted row of a team
\* (a leader set here from a leader row is set again by AddMember)
NewTeam(row) ==
    [unstopTeamId |-> row.teamId,
     teamName |-> Trim(row.teamName),
     teamSize |-> 0,
     verificationStatus |-> RowStatus(row),
     leader |-> NoLeader,
     members |-> <<>>]

\* AddMember leaving teamSize as it was
AddMember_KeepsSize(team, row) ==
    [team EXCEPT !.members = Append(team.members, Member(row)),
                 !.leader = IF IsLeaderRow(row) THEN LeaderOf(Member(row)) ELSE team.leader]

\* AddMember putting the new member in front of the others
AddMember_Unshift(team, row) ==
    [team EXCEPT !.members = <<Member(row)>> \o team.members,
                 !.teamSize = Len(team.members) + 1,
                 !.leader = IF IsLeaderRow(row) THEN LeaderOf(Member(row)) ELSE team.leader]

\* AddMember keeping the leader snapshot of the first leader row
AddMember_FirstLeader(team, row) ==
    [team EXCEPT !.members = Append(team.members, Member(row)),
                 !.teamSize = Len(team.members) + 1,
                 !.leader = IF IsLeaderRow(row) /\ team.leader.unset
                            THEN LeaderOf(Member(row)) ELSE team.leader]

\* AddMember taking the verification status from every accepted row
AddMember_LastStatus(team, row) ==
    [team EXCEPT !.members = Append(team.members, Member(row)),
                 !.teamSize = Len(team.members) + 1,
                 !.verificationStatus = RowStatus(row),
                 !.leader = IF IsLeaderRow(row) THEN LeaderOf(Member(row)) ELSE team.leader]

\* normalizeTeamData: the push of the member, teamSize, and the leader snapshot
AddMember(team, row) ==
    [team EXCEPT !.members = Append(team.members, Member(row)),
                 !.teamSize = Len(team.members) + 1,
                 !.leader = IF IsLeaderRow(row) THEN LeaderOf(Member(row)) ELSE team.leader]

\* SkipReason testing the team id before the team name
SkipReason_IdFirst(row) ==
    IF Trim(row.teamId) = <<>> THEN "Missing Team ID"
    ELSE IF Trim(row.teamName) = <<>> THEN "Missing Team Name"
    ELSE ""

\* normalizeTeamData: the two tests that skip a row (`!x || x.trim() === ''`),
\* "" for a row that passes both
SkipReason(row) ==
    IF Trim(row.teamName) = <<>> THEN "Missing Team Name"
    ELSE IF Trim(row.teamId) = <<>> THEN "Missing Team ID"
    ELSE ""

\* normalizeTeamData: one turn of the loop, on the row at 0-based index i
NormalizeRow(acc, row, i) ==
    IF row.isNull THEN acc
    ELSE IF SkipReason(row) # ""
    THEN [acc EXCEPT !.skippedRows = Append(acc.skippedRows, SkippedRow(row, i, SkipReason(row)))]
    ELSE LET teams == IF HasTeam(acc.teams, row.teamId)
                      THEN acc.teams ELSE Append(acc.teams, NewTeam(row))
             k == TeamIndex(teams, row.teamId)
         IN [acc EXCEPT !.teams = [teams EXCEPT ![k] = AddMember(teams[k], row)]]

RECURSIVE NormalizeFrom(_, _, _)
NormalizeFrom(rs, i, acc) ==
    IF i >= Len(rs) THEN acc ELSE NormalizeFrom(rs, i + 1, NormalizeRow(acc, rs[i + 1], i))

\* normalizeTeamData
normalizeTeamData(rs) ==
    NormalizeFrom(rs, 0, [done |-> TRUE, teams |-> <<>>, skippedRows |-> <<>>])

\* ---------------------------------------------------- CallLogController
\* BadRequest answering 200
BadRequest_Ok(c, op, t) ==
    Answer(c, op, t, 200, FALSE, "teamId and callerName are required", Null, NoLog)

\* `if (!teamId || !callerName)`: the answer to a request without a name
BadRequest(c, op, t) ==
    Answer(c, op, t, 400, FALSE, "teamId and callerName are required", Null, NoLog)

\* POST /call-log/teams/:teamId/lock, up to the findUnique of lockTeamForCalling
LockRequest(c, t, callerName) ==
    /\ req[c].pc = "idle"
    /\ IF ~Truthy(callerName)
       THEN /\ response' = BadRequest(c, "lock", t)
            /\ UNCHANGED req
       ELSE /\ req' = [req EXCEPT ![c] = [pc |-> "lock_read", team |-> t, existingLog |-> LockView(callLog[t])]]
            /\ UNCHANGED response
    /\ UNCHANGED <<now, callLog, acquiredAt, priorOutcome, recording>>
    /\ UNCHANGED <<scope, otherVars>>

\* lockTeamForCalling after the read: the staleness test, the upsert, and the HTTP answer
LockDecide(c) ==
    /\ req[c].pc = "lock_read"
    /\ LET t == req[c].team
           existingLog == req[c].existingLog
       IN IF LockConflict(existingLog, c, now)
          THEN /\ response' = Answer(c, "lock", t, 409, FALSE, "Team is currently being called by", existingLog.lockedBy, existingLog)
               /\ UNCHANGED <<callLog, acquiredAt>>
          ELSE /\ callLog' = [callLog EXCEPT ![t] = LockUpsert(callLog[t], c, now)]
               /\ response' = Answer(c, "lock", t, 200, TRUE, "Team locked for calling", Null, existingLog)
               /\ acquiredAt' = Kept([acquiredAt EXCEPT ![t][c] = now], acquiredAt)
    /\ req' = [req EXCEPT ![c] = Idle]
    /\ UNCHANGED <<now, priorOutcome, recording>>
    /\ UNCHANGED <<scope, otherVars>>

\* POST /call-log/teams/:teamId/status: validation and updateCallStatus (one upsert)
StatusRequest(c, t, status, callerName, notes) ==
    /\ req[c].pc = "idle"
    /\ IF ~Truthy(callerName)
       THEN /\ response' = BadRequest(c, "status", t)
            /\ UNCHANGED <<callLog, acquiredAt, priorOutcome>>
       ELSE IF status \notin Outcomes
       THEN /\ response' = Answer(c, "status", t, 400, FALSE, "Invalid status", Null, NoLog)
            /\ UNCHANGED <<callLog, acquiredAt, priorOutcome>>
       ELSE /\ callLog' = [callLog EXCEPT ![t] = StatusUpsert(callLog[t], status, c, notes, now)]
            /\ response' = Answer(c, "status", t, 200, TRUE, "Call status updated", Null, NoLog)
            /\ acquiredAt' = Kept([acquiredAt EXCEPT ![t][c] = NullTime], acquiredAt)
            /\ priorOutcome' = Kept([priorOutcome EXCEPT ![t] = status], priorOutcome)
    /\ req' = [req EXCEPT ![c] = Idle]
    /\ UNCHANGED <<now, recording>>
    /\ UNCHANGED <<scope, otherVars>>

\* POST /call-log/teams/:teamId/release, up to the findUnique of releaseLock
ReleaseRequest(c, t, callerName) ==
    /\ req[c].pc = "idle"
    /\ IF ~Truthy(callerName)
       THEN /\ response' = BadRequest(c, "release", t)
            /\ UNCHANGED req
       ELSE /\ req' = [req EXCEPT ![c] = [pc |-> "release_read", team |-> t, existingLog |-> ReleaseView(callLog[t])]]
            /\ UNCHANGED response
    /\ UNCHANGED <<now, callLog, acquiredAt, priorOutcome, recording>>
    /\ UNCHANGED <<scope, otherVars>>

\* releaseLock after the read: the ownership test, the update, and the HTTP answer
ReleaseDecide(c) ==
    /\ req[c].pc = "release_read"
    /\ LET t == req[c].team
           existingLog == req[c].existingLog
       IN /\ IF NotOwner(existingLog, c)
             THEN /\ response' = Answer(c, "release", t, 200, FALSE, "You do not have the lock on this team", Null, existingLog)
                  /\ UNCHANGED callLog
             ELSE /\ callLog' = [callLog EXCEPT ![t] = ReleaseUpdate(callLog[t], existingLog)]
                  /\ response' = Answer(c, "release", t, 200, TRUE, "Lock released", Null, existingLog)
          /\ acquiredAt' = Kept([acquiredAt EXCEPT ![t][c] = NullTime], acquiredAt)
    /\ req' = [req EXCEPT ![c] = Idle]
    /\ UNCHANGED <<now, priorOutcome, recording>>
    /\ UNCHANGED <<scope, otherVars>>

\* GET /call-log/teams: getUnverifiedTeamsWithCallStatus starts with the sweep
ListSweep(c) ==
    /\ req[c].pc = "idle"
    /\ callLog' = releaseStallLocks(callLog, now)
    /\ req' = [req EXCEPT ![c] = [pc |-> "list_swept", team |-> Null, existingLog |-> NoLog]]
    /\ UNCHANGED response
    /\ UNCHANGED <<now, acquiredAt, priorOutcome, recording>>
    /\ UNCHANGED <<scope, otherVars>>

\* getUnverifiedTeamsWithCallStatus: the reads after the sweep, and the answer
ListReturn(c) ==
    /\ req[c].pc = "list_swept"
    /\ req' = [req EXCEPT ![c] = Idle]
    /\ response' = Answer(c, "list", Null, 200, TRUE, "", Null, NoLog)
    /\ UNCHANGED <<now, callLog, acquiredAt, priorOutcome, recording>>
    /\ UNCHANGED <<scope, otherVars>>

\* the clock
Tick ==
    /\ now < MaxTicks * TickMs
    /\ now' = now + TickMs
    /\ acquiredAt' = [t \in Teams |-> [c \in Callers |->
           IF acquiredAt[t][c] # NullTime /\ now' - acquiredAt[t][c] < LockTimeoutMs
           THEN acquiredAt[t][c] ELSE NullTime]]
    /\ UNCHANGED <<callLog, req, response, priorOutcome, recording>>
    /\ UNCHANGED <<scope, otherVars>>

Next ==
    \/ \E c \in scope.callers, t \in scope.teams : \E n \in CallerNameInputs(c) : LockRequest(c, t, n)
    \/ \E c \in scope.callers : LockDecide(c)
    \/ \E c \in scope.callers, t \in scope.teams : \E b \in StatusBodies(c) :
          StatusRequest(c, t, b.status, b.callerName, b.notes)
    \/ \E c \in scope.callers, t \in scope.teams : \E n \in CallerNameInputs(c) : ReleaseRequest(c, t, n)
    \/ \E c \in scope.callers : ReleaseDecide(c)
    \/ \E c \in scope.callers : ListSweep(c)
    \/ \E c \in scope.callers : ListReturn(c)
    \/ Tick

Spec == Init /\ [][Next]_vars

\* the same program, with the history variables kept
SpecHistory == InitHistory /\ [][Next]_vars

\* the same program, with one caller working on two teams
InitTwoTeams == InitStore /\ recording = FALSE /\ scope = OneCaller /\ OtherIdle

SpecTwoTeams == InitTwoTeams /\ [][Next]_vars

\* GET /call-log/stats
GetCallStats ==
    /\ callStats' = getCallStats(callLog, verification)
    /\ UNCHANGED <<callVars, verification, csvVars, importVars, phoneVars, mailVars>>

\* the call logs the callers can have left behind at some time: none, a lock,
\* or an outcome
StatsRows ==
    {NoLog}
    \cup {LockUpsert(NoLog, c, 0) : c \in Callers}
    \cup {StatusUpsert(NoLog, s, c, Undefined, 0) : s \in Outcomes, c \in Callers}

VerificationStatus == {"PENDING", "VERIFIED"}

\* getCallStats asked over every such table of call logs, each team being
\* still PENDING or VERIFIED since
InitStats ==
    /\ now = 0
    /\ callLog \in [Teams -> StatsRows]
    /\ req = [c \in Callers |-> Idle]
    /\ response = NoResponse
    /\ acquiredAt = [t \in Teams |-> [c \in Callers |-> NullTime]]
    /\ priorOutcome = [t \in Teams |-> "NOT_CALLED"]
    /\ recording = FALSE
    /\ scope = SharedTeam
    /\ verification \in [Teams -> VerificationStatus]
    /\ callStats = NoStats
    /\ CsvIdle
    /\ ImportIdle
    /\ PhoneIdle
    /\ MailIdle

SpecStats == InitStats /\ [][GetCallStats]_vars

\* ------------------------------------------------------- CSV rows given
\* a parsed row of the export (UnstopCSVRow), or a hole in the array
Row(teamId, teamName, role, regStatus, candidate) ==
    [isNull |-> FALSE, teamId |-> teamId, teamName |-> teamName, role |-> role,
     regStatus |-> regStatus, name |-> candidate.name, email |-> candidate.email,
     mobile |-> candidate.mobile]

NullRow ==
    [isNull |-> TRUE, teamId |-> <<>>, teamName |-> <<>>, role |-> <<>>,
     regStatus |-> <<>>, name |-> <<>>, email |-> <<>>, mobile |-> <<>>]

\* two candidates: one with padded and mixed-case fields and a ten-digit
\* mobile, one with nothing but a short number
Asha == [name |-> <<" ", "A", "l">>, email |-> <<"A", "@", "x", " ">>, mobile |-> <<"9", "8", "7", "6", "5", " ", "4", "3", "2", "1", "0">>]
Anon == [name |-> <<>>, email |-> <<>>, mobile |-> <<"1", "2", "3">>]

RoleInputs == {<<"T", "e", "a", "m", " ", "L", "e", "a", "d", "e", "r">>, <<"T", "e", "a", "m", " ", "M", "e", "m", "b", "e", "r">>}
RegStatusInputs == {<<"C", "o", "m", "p", "l", "e", "t", "e">>, <<"I", "n", "c", "o", "m", "p", "l", "e", "t", "e">>}
TeamIdInputs == {<<"A">>, <<"B">>}

\* the team name each candidate typed
Entries == {[teamName |-> <<"X">>, candidate |-> Asha], [teamName |-> <<" ", "Y">>, candidate |-> Anon]}

\* rows with a team name and a team id
AcceptedRowInputs ==
    {Row(id, e.teamName, role, reg, e.candidate) :
        id \in TeamIdInputs, e \in Entries, role \in RoleInputs, reg \in RegStatusInputs}

\* rows without a team name, without a team id, or without both
SkippedRowInputs ==
    {Row(<<"A">>, <<>>, <<"T", "e", "a", "m", " ", "M", "e", "m", "b", "e", "r">>, <<"I", "n", "c", "o", "m", "p", "l", "e", "t", "e">>, Asha),
     Row(<<>>, <<" ">>, <<"T", "e", "a", "m", " ", "L", "e", "a", "d", "e", "r">>, <<"C", "o", "m", "p", "l", "e", "t", "e">>, Anon),
     Row(<<>>, <<"X">>, <<"T", "e", "a", "m", " ", "M", "e", "m", "b", "e", "r">>, <<"C", "o", "m", "p", "l", "e", "t", "e">>, Anon),
     Row(<<" ">>, <<"X">>, <<"T", "e", "a", "m", " ", "L", "e", "a", "d", "e", "r">>, <<"I", "n", "c", "o", "m", "p", "l", "e", "t", "e">>, Asha)}

RowInputs == AcceptedRowInputs \cup SkippedRowInputs \cup {NullRow}

CsvInputs == UNION {[1..n -> RowInputs] : n \in 0..MaxRows}

\* normalizeTeamData applied to the rows of an upload
Normalize ==
    /\ ~normalized.done
    /\ normalized' = normalizeTeamData(rows)
    /\ UNCHANGED <<callVars, statsVars, rows, importVars, phoneVars, mailVars>>

InitNormalize ==
    /\ InitStore
    /\ recording = FALSE
    /\ scope = SharedTeam
    /\ StatsIdle
    /\ rows \in CsvInputs
    /\ normalized = NotNormalized
    /\ ImportIdle
    /\ PhoneIdle
    /\ MailIdle

SpecNormalize == InitNormalize /\ [][Normalize]_vars

\* ------------------------------------------------------------ importTeams
\* a function with one key bound anew, and with one key dropped
With(f, k, v) == [x \in (DOMAIN f) \cup {k} |-> IF x = k THEN v ELSE f[x]]
Without(f, k) == [x \in (DOMAIN f) \ {k} |-> f[x]]

\* the store operations of importTeams that can throw inside a try block
RemoveFaults == {"callLog.deleteMany", "team.delete"}
UpdateFaults == {"team.findUnique", "team.update", "teamMember.deleteMany", "teamMember.createMany"}
CreateFaults == {"team.findUnique", "team.create"}
NoFault == "none"

\* importTeams: `new Set(teams.map(t => t.unstopTeamId))`
csvTeamIds(teams) == {teams[k].unstopTeamId : k \in 1..Len(teams)}

\* importTeams: the teams `findMany` returned that the CSV does not name
TeamsToRemove(st, teams) ==
    {[id |-> t.id, unstopTeamId |-> t.unstopTeamId, teamName |-> t.teamName] :
        t \in {u \in st.teams : u.unstopTeamId \notin csvTeamIds(teams)}}

\* FindUnique finding no team
FindUnique_Misses(st, unstopTeamId) == {}

\* `findUnique({ where: { unstopTeamId } })`: the teams with that identifier
FindUnique(st, unstopTeamId) == {t \in st.teams : t.unstopTeamId = unstopTeamId}

\* the Team columns importTeams writes from an aggregate
TeamRow(id, teamData) ==
    [id |-> id,
     unstopTeamId |-> teamData.unstopTeamId,
     teamName |-> teamData.teamName,
     teamSize |-> teamData.teamSize,
     verificationStatus |-> teamData.verificationStatus]

\* TeamUpdate leaving the stored verification status
TeamUpdate_KeepsStatus(st, existingTeam, teamData) ==
    [st EXCEPT !.teams = (@ \ {existingTeam})
                   \cup {[TeamRow(existingTeam.id, teamData) EXCEPT
                             !.unstopTeamId = existingTeam.unstopTeamId,
                             !.verificationStatus = existingTeam.verificationStatus]}]

\* TeamUpdate replacing the row by a new one under a fresh id
TeamUpdate_NewKey(st, existingTeam, teamData) ==
    [st EXCEPT !.teams = (@ \ {existingTeam}) \cup {TeamRow(st.nextKey, teamData)},
               !.members = With(Without(@, existingTeam.id), st.nextKey, @[existingTeam.id]),
               !.callLogs = Without(@, existingTeam.id),
               !.nextKey = @ + 1]

\* `prisma.team.update({ where: { id }, data })`: the row keeps its id and
\* its unstopTeamId, which `data` does not list
TeamUpdate(st, existingTeam, teamData) ==
    [st EXCEPT !.teams = (@ \ {existingTeam})
                   \cup {[TeamRow(existingTeam.id, teamData) EXCEPT
                             !.unstopTeamId = existingTeam.unstopTeamId]}]

\* MembersDelete leaving the old member rows in place
MembersDelete_KeepsRows(st, id) == st

\* `prisma.teamMember.deleteMany({ where: { teamId } })`
MembersDelete(st, id) == [st EXCEPT !.members = With(@, id, <<>>)]

\* `prisma.teamMember.createMany(...)`: one row per member of the aggregate
MembersCreate(st, id, teamData) ==
    [st EXCEPT !.members = With(@, id, @[id] \o teamData.members)]

\* `prisma.team.create(...)` with its nested member rows, under a fresh id
TeamCreate(st, teamData) ==
    [st EXCEPT !.teams = @ \cup {TeamRow(st.nextKey, teamData)},
               !.members = With(@, st.nextKey, teamData.members),
               !.nextKey = @ + 1]

\* CallLogDelete leaving the team's call log in place
CallLogDelete_KeepsRows(st, id) == st

\* `prisma.callLog.deleteMany({ where: { teamId } })`
CallLogDelete(st, id) == [st EXCEPT !.callLogs = Without(@, id)]

\* TeamDelete deleting the member rows and leaving the team row
TeamDelete_KeepsTeam(st, id) == [st EXCEPT !.members = With(@, id, <<>>)]

\* `prisma.team.delete({ where: { id } })`, the member rows cascading
TeamDelete(st, id) ==
    [st EXCEPT !.teams = {t \in @ : t.id # id},
               !.members = Without(@, id)]

\* the string pushed on `errors`
RemoveError(team) == [op |-> "remove", teamName |-> team.teamName]
ProcessError(teamData) == [op |-> "process", teamName |-> teamData.teamName]

\* CatchProcess dropping the error
CatchProcess_Swallows(errors, teamData) == errors

\* importTeams: the catch block of the processing loop
CatchProcess(errors, teamData) == Append(errors, ProcessError(teamData))

\* importTeams: the body of the removal loop for one stored team, `fault`
\* naming the operation that throws
RemoveStep(st, team, fault) ==
    IF fault = "callLog.deleteMany" THEN [store |-> st, ok |-> FALSE]
    ELSE IF fault = "team.delete" THEN [store |-> CallLogDelete(st, team.id), ok |-> FALSE]
    ELSE [store |-> TeamDelete(CallLogDelete(st, team.id), team.id), ok |-> TRUE]

\* importTeams: the body of the processing loop for one aggregate
ProcessStep(st, teamData, fault) ==
    LET found == FindUnique(st, teamData.unstopTeamId) IN
    IF fault = "team.findUnique" THEN [store |-> st, outcome |-> "error"]
    ELSE IF found # {} THEN
        LET existingTeam == CHOOSE t \in found : TRUE
            updated == TeamUpdate(st, existingTeam, teamData)
            emptied == MembersDelete(updated, existingTeam.id)
        IN  IF fault = "team.update" THEN [store |-> st, outcome |-> "error"]
            ELSE IF fault = "teamMember.deleteMany" THEN [store |-> updated, outcome |-> "error"]
            ELSE IF fault = "teamMember.createMany" THEN [store |-> emptied, outcome |-> "error"]
            ELSE [store |-> MembersCreate(emptied, existingTeam.id, teamData), outcome |-> "updated"]
    ELSE IF fault = "team.create" THEN [store |-> st, outcome |-> "error"]
         ELSE [store |-> TeamCreate(st, teamData), outcome |-> "new"]

\* the faults that can strike the processing of an aggregate
ProcessFaults(st, teamData) ==
    IF FindUnique(st, teamData.unstopTeamId) # {} THEN UpdateFaults ELSE CreateFaults

\* uploadCSV: the rows are normalized and importTeams starts; with
\* replaceAll it reads the stored teams (`findMany`)
ImportStart(rs, replaceAll) ==
    /\ imp.pc = "idle"
    /\ imp.runs < MaxImports
    /\ rows' = rs
    /\ normalized' = normalizeTeamData(rs)
    /\ imp' = [pc |-> "remove", runs |-> imp.runs + 1, replaceAll |-> replaceAll,
               teams |-> normalizeTeamData(rs).teams,
               toRemove |-> IF replaceAll
                            THEN TeamsToRemove(store, normalizeTeamData(rs).teams)
                            ELSE {},
               next |-> 1, newTeams |-> 0, updatedTeams |-> 0, removedTeams |-> 0,
               errors |-> <<>>, before |-> store]
    /\ UNCHANGED <<callVars, statsVars, store, importResult, storeFails, phoneVars, mailVars>>

\* importTeams: one pass of the removal loop
ImportRemove(fault) ==
    /\ imp.pc = "remove"
    /\ imp.toRemove # {}
    /\ fault = NoFault \/ (storeFails /\ fault \in RemoveFaults)
    /\ LET team == CHOOSE t \in imp.toRemove : \A u \in imp.toRemove : t.id <= u.id
           step == RemoveStep(store, team, fault)
       IN  /\ store' = step.store
           /\ imp' = [imp EXCEPT
                        !.toRemove = @ \ {team},
                        !.removedTeams = IF step.ok THEN @ + 1 ELSE @,
                        !.errors = IF step.ok THEN @ ELSE Append(@, RemoveError(team))]
    /\ UNCHANGED <<callVars, statsVars, csvVars, importResult, storeFails, phoneVars, mailVars>>

\* importTeams: one pass of the processing loop
ImportTeam(fault) ==
    /\ imp.pc = "remove"
    /\ imp.toRemove = {}
    /\ imp.next <= Len(imp.teams)
    /\ LET teamData == imp.teams[imp.next]
           step == ProcessStep(store, teamData, fault)
       IN  /\ fault = NoFault \/ (storeFails /\ fault \in ProcessFaults(store, teamData))
           /\ store' = step.store
           /\ imp' = [imp EXCEPT
                        !.next = @ + 1,
                        !.newTeams = IF step.outcome = "new" THEN @ + 1 ELSE @,
                        !.updatedTeams = IF step.outcome = "updated" THEN @ + 1 ELSE @,
                        !.errors = IF step.outcome = "error"
                                   THEN CatchProcess(@, teamData) ELSE @]
    /\ UNCHANGED <<callVars, statsVars, csvVars, importResult, storeFails, phoneVars, mailVars>>

\* importTeams returns and uploadCSV answers with the counts and the errors
ImportFinish ==
    /\ imp.pc = "remove"
    /\ imp.toRemove = {}
    /\ imp.next > Len(imp.teams)
    /\ importResult' = [done |-> TRUE, newTeams |-> imp.newTeams,
                        updatedTeams |-> imp.updatedTeams,
                        removedTeams |-> imp.removedTeams, errors |-> imp.errors,
                        totalTeams |-> Len(imp.teams), rows |-> rows,
                        replaceAll |-> imp.replaceAll]
    /\ imp' = [NoImport EXCEPT !.runs = imp.runs]
    /\ UNCHANGED <<callVars, statsVars, csvVars, store, storeFails, phoneVars, mailVars>>

\* a caller records an outcome for a stored team while no import runs:
\* updateCallStatus's upsert on that team's call log
RecordCall(id) ==
    /\ imp.pc = "idle"
    /\ id \in {t.id : t \in store.teams}
    /\ store' = [store EXCEPT !.callLogs =
                    With(@, id, StatusUpsert(NoLog, "CALLED_WILL_VERIFY", "Alice", Undefined, 0))]
    /\ UNCHANGED <<callVars, statsVars, csvVars, imp, importResult, storeFails, phoneVars, mailVars>>

\* the uploads: three rows over two teams, the second row of team A with
\* another name, role, status and candidate
RowA1 == Row(<<"A">>, <<"X">>, <<"T", "e", "a", "m", " ", "L", "e", "a", "d", "e", "r">>, <<"C", "o", "m", "p", "l", "e", "t", "e">>, Asha)
RowA2 == Row(<<"A">>, <<" ", "Y">>, <<"T", "e", "a", "m", " ", "M", "e", "m", "b", "e", "r">>, <<"I", "n", "c", "o", "m", "p", "l", "e", "t", "e">>, Anon)
RowB == Row(<<"B">>, <<"X">>, <<"T", "e", "a", "m", " ", "L", "e", "a", "d", "e", "r">>, <<"I", "n", "c", "o", "m", "p", "l", "e", "t", "e">>, Asha)

ImportCsvInputs ==
    {<<>>, <<RowA1>>, <<RowA2>>, <<RowB>>, <<RowA1, RowA2>>, <<RowA1, RowB>>, <<RowB, RowA2>>}

NextImport ==
    \/ \E rs \in ImportCsvInputs, replaceAll \in BOOLEAN : ImportStart(rs, replaceAll)
    \/ \E fault \in {NoFault} \cup RemoveFaults : ImportRemove(fault)
    \/ \E fault \in {NoFault} \cup UpdateFaults \cup CreateFaults : ImportTeam(fault)
    \/ ImportFinish
    \/ \E id \in 1..(store.nextKey - 1) : RecordCall(id)

InitImport ==
    /\ InitStore
    /\ recording = FALSE
    /\ scope = SharedTeam
    /\ StatsIdle
    /\ CsvIdle
    /\ store = EmptyStore
    /\ imp = NoImport
    /\ importResult = NoImportResult
    /\ storeFails = FALSE
    /\ PhoneIdle
    /\ MailIdle

\* the uploads when no store operation throws
SpecImport == InitImport /\ [][NextImport]_vars

InitImportFailing ==
    /\ InitStore
    /\ recording = FALSE
    /\ scope = SharedTeam
    /\ StatsIdle
    /\ CsvIdle
    /\ store = EmptyStore
    /\ imp = NoImport
    /\ importResult = NoImportResult
    /\ storeFails = TRUE
    /\ PhoneIdle
    /\ MailIdle

\* the uploads when the store operations inside the try blocks may throw
SpecImportFailing == InitImportFailing /\ [][NextImport]_vars

\* PATCH /teams/:teamId/verify while no import runs: an operator marks a
\* stored team VERIFIED
VerifyTeam(id) ==
    /\ imp.pc = "idle"
    /\ \E t \in store.teams :
          /\ t.id = id
          /\ store' = [store EXCEPT !.teams =
                          (@ \ {t}) \cup {[t EXCEPT !.verificationStatus = "VERIFIED"]}]
    /\ UNCHANGED <<callVars, statsVars, csvVars, imp, importResult, storeFails, phoneVars, mailVars>>

NextImportVerify ==
    \/ NextImport
    \/ \E id \in 1..(store.nextKey - 1) : VerifyTeam(id)

\* the uploads, with an operator verifying teams between them
SpecImportVerify == InitImport /\ [][NextImportVerify]_vars

\* ---------------------------------------------------------- normalizePhone
\* what is typed in front of a number, its first two digits, a separator, and
\* the digits after them
PhoneLeads == {<<>>, <<"+">>, <<"+", "9", "1", " ">>, <<"(", "0", ")">>}
PhoneHeads == {<<"9", "1">>, <<"9", "8">>, <<"1", "2">>}
PhoneSeparators == {<<>>, <<" ">>, <<"-">>}
PhoneTails ==
    {<<>>, <<"3">>,
     <<"7", "6", "5", "4", "3", "2", "1">>,
     <<"7", "6", "5", "4", "3", "2", "1", "0">>,
     <<"7", "6", "5", " ", "4", "3", "2", "1", "0">>,
     <<"2", "3", "4", "5", "6", "7", "8", "9">>,
     <<"7", "6", "5", "4", "3", "2", "1", "0", "0">>,
     <<"7", "6", "5", "4", "3", "2", "1", "0", "x", "1", "2">>}

PhoneInputs ==
    {<<>>, <<"N", "/", "A">>}
    \cup {lead \o head \o sep \o tail :
            lead \in PhoneLeads, head \in PhoneHeads, sep \in PhoneSeparators, tail \in PhoneTails}

\* normalizePhone applied to the mobile column of a row
NormalizePhone ==
    /\ ~phoneResult.done
    /\ phoneResult' = [done |-> TRUE, value |-> normalizePhone(phoneInput)]
    /\ UNCHANGED <<callVars, statsVars, csvVars, importVars, phoneInput, mailVars>>

InitPhone ==
    /\ InitStore
    /\ recording = FALSE
    /\ scope = SharedTeam
    /\ StatsIdle
    /\ CsvIdle
    /\ ImportIdle
    /\ phoneInput \in PhoneInputs
    /\ phoneResult = NoPhoneResult
    /\ MailIdle

SpecPhone == InitPhone /\ [][NormalizePhone]_vars

\* ------------------------------------------------------ bulk email dispatch
\* the three requests that start a bulk dispatch
DispatchOps == {"sendVerificationReminders", "sendCustomEmail", "sendCustomEmailToRecipients"}

\* `await this.delay(100)` of sendBulkEmails, `await this.delay(600)` of
\* sendCustomBulkEmails
BulkDelayMs == 100
CustomBulkDelayMs == 600

DelayOf(op) == IF op = "sendVerificationReminders" THEN BulkDelayMs ELSE CustomBulkDelayMs

\* what the provider answers to a request: it accepts the email, or it returns
\* an error with a message
ProviderOk == "ok"
ProviderErrors == {"rate limit exceeded"}

\* the k-th recipient of a dispatch: a member of a stored team (teamId and
\* memberId set), or an address from the request body (neither set)
Recipient(k, op) ==
    IF op = "sendCustomEmailToRecipients"
    THEN [email |-> k, teamId |-> Undefined, memberId |-> Undefined]
    ELSE [email |-> k, teamId |-> IF k % 2 = 1 THEN "T1" ELSE "T2", memberId |-> k]

\* the recipient lists the three requests pass on: the two custom requests
\* answer 400 for an empty list
RecipientCounts(op) == IF op = "sendVerificationReminders" THEN 0..MaxRecipients ELSE 1..MaxRecipients

\* sendEmail: the Communication Log rows one call creates
LogRows(recipient, answer) ==
    IF ~Truthy(recipient.teamId) THEN <<>>
    ELSE IF answer = ProviderOk
    THEN <<[teamId |-> recipient.teamId, memberId |-> recipient.memberId,
            recipientEmail |-> recipient.email, status |-> "SENT", errorMessage |-> Null]>>
    ELSE <<[teamId |-> recipient.teamId, memberId |-> recipient.memberId,
            recipientEmail |-> recipient.email, status |-> "FAILED", errorMessage |-> answer]>>

\* an entry of the trace: a request to the provider, or a delay
SendEvent(k, recipient, answer) ==
    [kind |-> "send", index |-> k, email |-> recipient.email, answer |-> answer, ms |-> 0]
DelayEvent(ms) ==
    [kind |-> "delay", index |-> 0, email |-> 0, answer |-> "none", ms |-> ms]

\* the loop body after sendEmail returned: `sent++`, then the delay
AfterSent(d) == [d EXCEPT !.sent = @ + 1, !.pc = "delay"]

\* AfterFailed leaving the loop at the first failure
AfterFailed_Stops(d, recipient, answer) ==
    [d EXCEPT !.failed = @ + 1,
              !.errors = Append(@, [email |-> recipient.email, error |-> answer]),
              !.next = Len(d.recipients) + 1]

\* the catch block of the loop: `failed++`, the error pushed, next recipient
AfterFailed(d, recipient, answer) ==
    [d EXCEPT !.failed = @ + 1,
              !.errors = Append(@, [email |-> recipient.email, error |-> answer]),
              !.next = @ + 1]

\* a controller resolves the recipients and calls sendBulkEmails or
\* sendCustomBulkEmails
DispatchStart(op, n) ==
    /\ dispatch.pc = "idle"
    /\ n \in RecipientCounts(op)
    /\ dispatch' = [pc |-> "send", op |-> op,
                    recipients |-> [k \in 1..n |-> Recipient(k, op)],
                    next |-> 1, sent |-> 0, failed |-> 0, errors |-> <<>>,
                    delayMs |-> DelayOf(op)]
    /\ UNCHANGED <<callVars, statsVars, csvVars, importVars, phoneVars, commLog, mailTrace>>

\* one pass of the loop up to the delay: sendEmail for the next recipient,
\* the provider answering `answer`
SendEmail(answer) ==
    /\ dispatch.pc = "send"
    /\ dispatch.next <= Len(dispatch.recipients)
    /\ LET recipient == dispatch.recipients[dispatch.next] IN
        /\ mailTrace' = Append(mailTrace, SendEvent(dispatch.next, recipient, answer))
        /\ commLog' = commLog \o LogRows(recipient, answer)
        /\ dispatch' = IF answer = ProviderOk
                       THEN AfterSent(dispatch)
                       ELSE AfterFailed(dispatch, recipient, answer)
    /\ UNCHANGED <<callVars, statsVars, csvVars, importVars, phoneVars>>

\* `await this.delay(ms)` after a send that succeeded
Delay ==
    /\ dispatch.pc = "delay"
    /\ mailTrace' = Append(mailTrace, DelayEvent(dispatch.delayMs))
    /\ dispatch' = [dispatch EXCEPT !.pc = "send", !.next = @ + 1]
    /\ UNCHANGED <<callVars, statsVars, csvVars, importVars, phoneVars, commLog>>

\* the loop is over: `return { sent, failed, errors }`
DispatchReturn ==
    /\ dispatch.pc = "send"
    /\ dispatch.next > Len(dispatch.recipients)
    /\ dispatch' = [dispatch EXCEPT !.pc = "done"]
    /\ UNCHANGED <<callVars, statsVars, csvVars, importVars, phoneVars, commLog, mailTrace>>

NextMail ==
    \/ \E op \in DispatchOps, n \in 0..MaxRecipients : DispatchStart(op, n)
    \/ \E answer \in {ProviderOk} \cup ProviderErrors : SendEmail(answer)
    \/ Delay
    \/ DispatchReturn

SpecMail == Init /\ [][NextMail]_vars

\* the program after Abandoner has acquired T1 and its client has gone away:
\* time advances, every handler in flight runs to its end, and the clients
\* that are left keep polling the list (setInterval) and keep trying to acquire
InitAbandoned ==
    /\ now = 0
    /\ callLog = [t \in Teams |-> IF t = "T1" THEN LockUpsert(NoLog, Abandoner, 0) ELSE NoLog]
    /\ req = [c \in Callers |-> Idle]
    /\ response = Answer(Abandoner, "lock", "T1", 200, TRUE, "Team locked for calling", Null, NoLog)
    /\ acquiredAt = [t \in Teams |-> [c \in Callers |-> NullTime]]
    /\ priorOutcome = [t \in Teams |-> "NOT_CALLED"]
    /\ recording = FALSE
    /\ scope = [teams |-> {"T1"}, callers |-> Callers \ {Abandoner}]
    /\ OtherIdle

FairClients ==
    /\ WF_vars(Tick)
    /\ \A c \in Callers \ {Abandoner} :
          /\ SF_vars(LockRequest(c, "T1", c))
          /\ WF_vars(LockDecide(c))
          /\ WF_vars(ReleaseDecide(c))
          /\ SF_vars(ListSweep(c))
          /\ WF_vars(ListReturn(c))

SpecAbandoned == InitAbandoned /\ [][Next]_vars /\ FairClients

\* ================================================================ claims
\* a step in which caller c's lockTeamForCalling returns
LockReturns(c) == req[c].pc = "lock_read" /\ req'[c].pc = "idle"

\* a step in which caller c's releaseLock returns
ReleaseReturns(c) == req[c].pc = "release_read" /\ req'[c].pc = "idle"

\* caller c holds a claim on team t
Holds(t, c) == acquiredAt[t][c] # NullTime /\ now - acquiredAt[t][c] < LockTimeoutMs

IdleStatuses == {"NOT_CALLED", "CALLED_WILL_VERIFY", "CALLED_NOT_PICKED", "CALLED_REJECTED"}

\* C1: no two different callers hold a claim on the same team at the same
\* time, a claim lasting from a successful acquire until the caller's own
\* release or complete, or until the timeout has passed since the acquire.
C1_MutualExclusion ==
    \A t \in Teams : \A c \in Callers, d \in Callers :
        c # d => ~(Holds(t, c) /\ Holds(t, d))

\* C2: of two concurrent acquires on a team without a lock exactly one
\* succeeds: the call that read "no lock" and returns after the other
\* caller took the lock gets a conflict naming that caller.
C2_ExactlyOneWins ==
    [][\A c \in Callers :
         LET t == req[c].team IN
         (/\ LockReturns(c)
          /\ ~Truthy(req[c].existingLog.lockedBy)
          /\ Truthy(callLog[t].lockedBy)
          /\ callLog[t].lockedBy # c
          /\ now - callLog[t].lockedAt < LockTimeoutMs)
         => (/\ response'.caller = c
             /\ response'.success = FALSE
             /\ response'.holder = callLog[t].lockedBy)]_vars

\* C3: an acquire that read a lock of another caller younger than the
\* timeout fails: success=false, the message names the holder, the HTTP
\* answer is 409 and the call log is unchanged.
C3_ConflictOnFreshLock ==
    [][\A c \in Callers :
         LET e == req[c].existingLog IN
         (/\ LockReturns(c)
          /\ e.lockedBy \in Callers \ {c}
          /\ e.lockedAt # NullTime
          /\ now - e.lockedAt < LockTimeoutMs)
         => (/\ response' = Answer(c, "lock", req[c].team, 409, FALSE,
                                   "Team is currently being called by", e.lockedBy, e)
             /\ callLog' = callLog)]_vars

C3_Witness ==
    /\ response.op = "lock"
    /\ response.http = 409
    /\ response.holder \in Callers \ {response.caller}
    /\ callLog[response.team].lockedBy = response.holder
    /\ callLog[response.team].lockedAt = response.existingLog.lockedAt

\* C4: an acquire that read a lock older than the timeout succeeds for every
\* caller, whoever owns the stale lock, and the lock passes to that caller.
C4_StaleLockTaken ==
    [][\A c \in Callers :
         LET e == req[c].existingLog
             t == req[c].team IN
         (/\ LockReturns(c)
          /\ Truthy(e.lockedBy)
          /\ e.lockedAt # NullTime
          /\ now - e.lockedAt > LockTimeoutMs)
         => (/\ response'.caller = c /\ response'.op = "lock"
             /\ response'.success = TRUE /\ response'.http = 200
             /\ callLog'[t].lockedBy = c
             /\ callLog'[t].lockedAt = now)]_vars

C4_Witness ==
    /\ response.op = "lock"
    /\ response.success
    /\ response.existingLog.lockedBy \in Callers \ {response.caller}
    /\ now - response.existingLog.lockedAt > LockTimeoutMs
    /\ callLog[response.team].lockedBy = response.caller
    /\ callLog[response.team].lockedAt = now

\* C5: an acquire succeeds when it read no call log, an unlocked log, a lock
\* older than the timeout or a lock of the same caller, and a successful
\* acquire leaves the log existing with status BEING_CALLED, lockedBy = the
\* caller and lockedAt = the current time.
C5_AcquireEffect ==
    [][\A c \in Callers :
         LET e == req[c].existingLog
             t == req[c].team IN
         LockReturns(c) =>
           /\ (\/ ~e.exists
               \/ ~Truthy(e.lockedBy)
               \/ now - e.lockedAt > LockTimeoutMs
               \/ e.lockedBy = c)
              => (response'.caller = c /\ response'.op = "lock" /\ response'.success)
           /\ (response'.caller = c /\ response'.op = "lock" /\ response'.success)
              => (/\ callLog'[t].exists
                  /\ callLog'[t].callStatus = "BEING_CALLED"
                  /\ callLog'[t].lockedBy = c
                  /\ callLog'[t].lockedAt = now)]_vars

\* a re-entrant acquire has refreshed lockedAt
C5_Witness ==
    /\ response.op = "lock"
    /\ response.success
    /\ response.existingLog.lockedBy = response.caller
    /\ response.existingLog.lockedAt < now
    /\ callLog[response.team].lockedBy = response.caller
    /\ callLog[response.team].lockedAt = now
    /\ callLog[response.team].callStatus = "BEING_CALLED"

\* C6: a call log with non-empty lockedBy has status BEING_CALLED.
C6_LockedImpliesBeingCalled ==
    \A t \in Teams :
        Truthy(callLog[t].lockedBy) => callLog[t].callStatus = "BEING_CALLED"

\* a team locked again, a timeout or more into the run, after an outcome was recorded
C6_Witness ==
    \E t \in Teams :
        /\ Truthy(callLog[t].lockedBy)
        /\ Truthy(callLog[t].calledBy)
        /\ callLog[t].lockedAt > callLog[t].lastCalledAt
        /\ callLog[t].lockedAt >= LockTimeoutMs

\* C7: a call log with empty lockedBy has a status in {NOT_CALLED,
\* CALLED_WILL_VERIFY, CALLED_NOT_PICKED, CALLED_REJECTED}, never BEING_CALLED.
C7_UnlockedImpliesIdle ==
    \A t \in Teams :
        (callLog[t].exists /\ ~Truthy(callLog[t].lockedBy))
            => callLog[t].callStatus \in IdleStatuses

\* C8: releaseLock succeeds exactly when the row it read has lockedBy = the
\* caller, and then clears lockedBy and lockedAt; when the lock is held by
\* another caller, the log is unlocked or there is no log, it returns
\* success=false, 'You do not have the lock on this team', and changes nothing.
C8_ReleaseOwnership ==
    [][\A c \in Callers :
         LET e == req[c].existingLog
             t == req[c].team IN
         ReleaseReturns(c) =>
           IF e.exists /\ e.lockedBy = c
           THEN /\ response'.caller = c /\ response'.op = "release"
                /\ response'.success = TRUE
                /\ callLog'[t].lockedBy = Null
                /\ callLog'[t].lockedAt = NullTime
           ELSE /\ response' = Answer(c, "release", t, 200, FALSE,
                                      "You do not have the lock on this team", Null, e)
                /\ callLog' = callLog]_vars

\* a release by a caller who is not the holder has failed and left the lock
C8_Witness ==
    /\ response.op = "release"
    /\ ~response.success
    /\ response.existingLog.lockedBy \in Callers \ {response.caller}
    /\ callLog[response.team].lockedBy = response.existingLog.lockedBy
    /\ callLog[response.team].callStatus = "BEING_CALLED"

\* C9: a successful releaseLock (no other write between its read and its
\* update) sets the status back to the outcome recorded before the lock was
\* taken when calledBy is set, and to NOT_CALLED otherwise.
C9_ReleaseRevertsStatus ==
    [][\A c \in Callers :
         LET t == req[c].team IN
         (/\ ReleaseReturns(c)
          /\ req[c].existingLog = ReleaseView(callLog[t])
          /\ response'.caller = c /\ response'.op = "release" /\ response'.success)
         => callLog'[t].callStatus =
               IF Truthy(callLog[t].calledBy) THEN priorOutcome[t] ELSE "NOT_CALLED"]_vars

\* the row updateCallStatus is claimed to leave, the notes stored as given
C10_RowAsClaimed(status, callerName, notes, t) ==
    [exists |-> TRUE, callStatus |-> status, lockedBy |-> Null, lockedAt |-> NullTime,
     calledBy |-> callerName, notes |-> IF notes = Undefined THEN Null ELSE notes,
     lastCalledAt |-> t]

\* the row updateCallStatus leaves, absent and empty notes stored as null
C10_RowAmended(status, callerName, notes, t) ==
    [exists |-> TRUE, callStatus |-> status, lockedBy |-> Null, lockedAt |-> NullTime,
     calledBy |-> callerName, notes |-> IF notes \in {Undefined, ""} THEN Null ELSE notes,
     lastCalledAt |-> t]

\* C10 as stated: updateCallStatus always succeeds, whatever the current
\* state, and leaves status = outcome, the lock empty, calledBy = caller,
\* notes = the given notes and lastCalledAt = now.
C10_CompleteAsClaimed ==
    [][response'.op = "status" =>
         \A s \in Outcomes, notes \in NotesInputs :
            LET c == response'.caller
                t == response'.team IN
            StatusRequest(c, t, s, c, notes)
            => (/\ response'.success /\ response'.http = 200
                /\ callLog'[t] = C10_RowAsClaimed(s, c, notes, now))]_vars

\* C10 amended: updateCallStatus always succeeds, whatever the current
\* state, and leaves status = outcome, the lock empty, calledBy = caller,
\* lastCalledAt = now, and notes = the given notes when they are a non-empty
\* string and null when they are absent or the empty string.
C10_CompleteUnconditional ==
    [][response'.op = "status" =>
         \A s \in Outcomes, notes \in NotesInputs :
            LET c == response'.caller
                t == response'.team IN
            StatusRequest(c, t, s, c, notes)
            => (/\ response'.success /\ response'.http = 200
                /\ callLog'[t] = C10_RowAmended(s, c, notes, now))]_vars

\* an outcome recorded, with empty notes, by a caller over the lock of another
\* caller, whose release has read its own lock and is still in flight
C10_Witness ==
    /\ response.op = "status"
    /\ response.success
    /\ callLog[response.team].calledBy = response.caller
    /\ callLog[response.team].lockedBy = Null
    /\ callLog[response.team].notes = Null
    /\ callLog[response.team].lastCalledAt = now
    /\ \E d \in Callers \ {response.caller} :
          /\ req[d].pc = "release_read"
          /\ req[d].team = response.team
          /\ req[d].existingLog.lockedBy = d

\* C11: the call cycle can be repeated: every updateCallStatus that records
\* an outcome, also over an earlier outcome, leaves that outcome with the lock
\* empty, and every lockTeamForCalling that read an unlocked call log, by
\* whichever caller, succeeds and moves the status to BEING_CALLED.
C11_CallCycleRepeats ==
    [][/\ response'.op = "status" =>
            \A s \in Outcomes, notes \in NotesInputs :
               LET c == response'.caller
                   t == response'.team IN
               StatusRequest(c, t, s, c, notes)
               => (/\ callLog'[t].callStatus = s
                   /\ callLog'[t].calledBy = c
                   /\ callLog'[t].lockedBy = Null
                   /\ callLog'[t].lockedAt = NullTime)
       /\ \A c \in Callers :
            LET e == req[c].existingLog
                t == req[c].team IN
            (LockReturns(c) /\ e.exists /\ ~Truthy(e.lockedBy))
            => (/\ response'.caller = c /\ response'.op = "lock" /\ response'.success
                /\ callLog'[t].callStatus = "BEING_CALLED"
                /\ callLog'[t].lockedBy = c)]_vars

\* a team whose outcome was recorded by one caller has been acquired by the
\* other caller, who read the call log unlocked
C11_Witness ==
    /\ response.op = "lock"
    /\ response.success
    /\ response.existingLog.exists
    /\ ~Truthy(response.existingLog.lockedBy)
    /\ callLog[response.team].callStatus = "BEING_CALLED"
    /\ callLog[response.team].lockedBy = response.caller
    /\ callLog[response.team].calledBy \in Callers \ {response.caller}
    /\ callLog[response.team].lastCalledAt < callLog[response.team].lockedAt

\* a lock that is held and more than the timeout old
C12_Overdue(log, t) ==
    Truthy(log.lockedBy) /\ log.lockedAt # NullTime /\ t - log.lockedAt > LockTimeoutMs

\* a step in which caller c's getUnverifiedTeamsWithCallStatus does its sweep
ListSweeps(c) == req[c].pc = "idle" /\ req'[c].pc = "list_swept"

\* C12 as stated: every acquire and every list request sweeps first: after
\* the sweep of a list request, and when lockTeamForCalling returns, no call
\* log of any team holds a lock more than 5 minutes old.
C12_EveryRequestSweeps ==
    [][\A c \in Callers :
         (ListSweeps(c) \/ LockReturns(c))
         => \A t \in Teams : ~C12_Overdue(callLog'[t], now)]_vars

\* C12 amended: only a list request sweeps. The sweep of a list request
\* clears lockedBy/lockedAt and sets NOT_CALLED on every row whose lock is
\* more than 5 minutes old and changes no other row, so that no such lock is
\* left; lockTeamForCalling changes no call log but that of its own team.
C12_OnlyListSweeps ==
    [][\A c \in Callers :
         /\ ListSweeps(c) =>
               \A t \in Teams :
                  /\ ~C12_Overdue(callLog'[t], now)
                  /\ callLog'[t] =
                        IF C12_Overdue(callLog[t], now)
                        THEN [callLog[t] EXCEPT !.lockedBy = Null, !.lockedAt = NullTime,
                                                !.callStatus = "NOT_CALLED"]
                        ELSE callLog[t]
         /\ LockReturns(c) =>
               \A u \in Teams \ {req[c].team} : callLog'[u] = callLog[u]]_vars

\* a caller's list request has swept the lock the caller took with its last
\* answered request, while the list is still in flight
C12_Witness ==
    \E c \in Callers :
        /\ req[c].pc = "list_swept"
        /\ response.caller = c
        /\ response.op = "lock"
        /\ response.success
        /\ callLog[response.team].exists
        /\ callLog[response.team].lockedBy = Null
        /\ callLog[response.team].lockedAt = NullTime
        /\ callLog[response.team].callStatus = "NOT_CALLED"

\* C13: an abandoned lock does not block a team for ever: when the holder
\* issues no further request, time advances and the other clients keep
\* polling and trying to acquire, eventually another caller's acquire on the
\* team succeeds and the lock is that caller's.
C13_AbandonedLockFreed ==
    <>(/\ response.op = "lock"
       /\ response.success
       /\ response.team = "T1"
       /\ response.caller # Abandoner
       /\ callLog["T1"].lockedBy = response.caller)

\* another caller has taken over the abandoned lock, which it read as old as
\* the timeout or older
C13_Witness ==
    /\ response.op = "lock"
    /\ response.success
    /\ response.caller # Abandoner
    /\ response.existingLog.lockedBy = Abandoner
    /\ response.existingLog.lockedAt = 0
    /\ now - response.existingLog.lockedAt >= LockTimeoutMs
    /\ callLog[response.team].lockedBy = response.caller

\* the transitions of the call status state machine
C14_Transitions ==
    ({"NOT_CALLED"} \X {"BEING_CALLED"})
    \cup ({"BEING_CALLED"} \X Outcomes)
    \cup ({"BEING_CALLED"} \X {"NOT_CALLED"})
    \cup (Outcomes \X {"BEING_CALLED"})

\* C14: every change of a team's call status (a team without a call log
\* counting as NOT_CALLED) is a transition of the state machine.
C14_StatusStateMachine ==
    [][\A t \in Teams :
         callLog'[t].callStatus # callLog[t].callStatus
         => <<callLog[t].callStatus, callLog'[t].callStatus>> \in C14_Transitions]_vars

\* the number of PENDING teams whose call log has the status
C15_PendingWith(status) ==
    Cardinality({t \in Teams : /\ verification[t] = "PENDING"
                               /\ callLog[t].exists
                               /\ callLog[t].callStatus = status})

\* C15: getCallStats counts, for each call status, only the teams whose
\* verification status is PENDING.
C15_StatsCountPendingOnly ==
    callStats # NoStats =>
        /\ callStats.willVerify = C15_PendingWith("CALLED_WILL_VERIFY")
        /\ callStats.notPicked = C15_PendingWith("CALLED_NOT_PICKED")
        /\ callStats.rejected = C15_PendingWith("CALLED_REJECTED")
        /\ callStats.beingCalled = C15_PendingWith("BEING_CALLED")

\* ------------------------------------------------ claims on the CSV rows
\* the row at 1-based position i has a blank team name / passes the name
\* test and has a blank team id / passes both tests
BlankName(i) == ~rows[i].isNull /\ Trim(rows[i].teamName) = <<>>

BlankId(i) == ~rows[i].isNull /\ Trim(rows[i].teamName) # <<>> /\ Trim(rows[i].teamId) = <<>>

Accepted(i) == ~rows[i].isNull /\ Trim(rows[i].teamName) # <<>> /\ Trim(rows[i].teamId) # <<>>

\* the row at 1-based position i is in skippedRows with the reason
SkippedAs(i, reason) ==
    \E k \in 1..Len(normalized.skippedRows) :
        /\ normalized.skippedRows[k].rowNumber = i + 1
        /\ normalized.skippedRows[k].reason = reason

\* the accepted rows carrying a team id, in input order
AcceptedRowsOf(teamId) ==
    LET Carries(row) ==
            /\ ~row.isNull
            /\ Trim(row.teamName) # <<>>
            /\ Trim(row.teamId) # <<>>
            /\ row.teamId = teamId
    IN SelectSeq(rows, Carries)

\* the team ids of the accepted rows
AcceptedIds == {rows[i].teamId : i \in {j \in 1..Len(rows) : Accepted(j)}}

RECURSIVE MembersTotal(_)
MembersTotal(teams) ==
    IF teams = <<>> THEN 0 ELSE Len(Head(teams).members) + MembersTotal(Tail(teams))

\* C16: every row with a blank team name is skipped with 'Missing Team
\* Name', every other row with a blank team id with 'Missing Team ID' (the
\* name test first when both are blank), and no such row is a member of an
\* aggregate: the aggregates have non-blank names and ids and hold as many
\* members as there are rows that pass both tests.
C16_SkipReasons ==
    normalized.done =>
        /\ \A i \in 1..Len(rows) :
              /\ BlankName(i) => (/\ SkippedAs(i, "Missing Team Name")
                                  /\ ~SkippedAs(i, "Missing Team ID"))
              /\ BlankId(i) => (/\ SkippedAs(i, "Missing Team ID")
                                /\ ~SkippedAs(i, "Missing Team Name"))
        /\ \A k \in 1..Len(normalized.teams) :
              /\ Trim(normalized.teams[k].teamName) # <<>>
              /\ Trim(normalized.teams[k].unstopTeamId) # <<>>
        /\ MembersTotal(normalized.teams) = Cardinality({i \in 1..Len(rows) : Accepted(i)})

\* a row with both fields blank, a row with only the id blank and an accepted
\* row have been normalized
C16_Witness ==
    /\ normalized.done
    /\ \E i \in 1..Len(rows) : BlankName(i) /\ Trim(rows[i].teamId) = <<>>
    /\ \E i \in 1..Len(rows) : BlankId(i)
    /\ \E i \in 1..Len(rows) : Accepted(i)
    /\ Len(normalized.skippedRows) = 2
    /\ Len(normalized.teams) = 1

\* C17: for every team id, the aggregate has teamSize and member count
\* equal to the number of accepted rows carrying the id, the members are
\* those rows' members in row order, and teamName is the trimmed team name
\* of the first of those rows.
C17_MembersOfTeam ==
    normalized.done =>
        /\ \A id \in AcceptedIds :
              \E k \in 1..Len(normalized.teams) : normalized.teams[k].unstopTeamId = id
        /\ \A k \in 1..Len(normalized.teams) :
              LET team == normalized.teams[k]
                  rs == AcceptedRowsOf(team.unstopTeamId)
              IN /\ rs # <<>>
                 /\ team.teamSize = Len(rs)
                 /\ Len(team.members) = Len(rs)
                 /\ team.members = [j \in 1..Len(rs) |-> Member(rs[j])]
                 /\ team.teamName = Trim(rs[1].teamName)

\* a team of two different members whose rows give different team names,
\* with a row of another team between them
C17_Witness ==
    /\ normalized.done
    /\ Len(rows) = 3
    /\ Accepted(1) /\ Accepted(2) /\ Accepted(3)
    /\ rows[1].teamId = rows[3].teamId
    /\ rows[1].teamId # rows[2].teamId
    /\ Trim(rows[1].teamName) # Trim(rows[3].teamName)
    /\ Member(rows[1]) # Member(rows[3])
    /\ Len(normalized.teams) = 2
    /\ normalized.teams[1].teamSize = 2

C19_AtMostOneLeader ==
    normalized.done =>
        \A k \in 1..Len(normalized.teams) :
            LET members == normalized.teams[k].members
            IN Cardinality({j \in 1..Len(members) : members[j].isLeader}) <= 1

\* the accepted leader rows among a sequence of rows
LeaderRows(rs) == SelectSeq(rs, IsLeaderRow)

\* C20: the leader snapshot of an aggregate is the member data (name, email,
\* phone) of the last accepted leader row of the team; a team without a
\* leader row is produced all the same, with the leader unset.
C20_LeaderSnapshot ==
    normalized.done =>
        /\ \A id \in AcceptedIds :
              \E k \in 1..Len(normalized.teams) : normalized.teams[k].unstopTeamId = id
        /\ \A k \in 1..Len(normalized.teams) :
              LET team == normalized.teams[k]
                  ls == LeaderRows(AcceptedRowsOf(team.unstopTeamId))
                  last == Member(ls[Len(ls)])
              IN IF ls = <<>>
                 THEN team.leader.unset
                 ELSE /\ ~team.leader.unset
                      /\ team.leader.fullName = last.fullName
                      /\ team.leader.email = last.email
                      /\ team.leader.phone = last.phone

\* one team with two leader rows of different candidates, and one team
\* without a leader row
C20_Witness ==
    /\ normalized.done
    /\ \E k \in 1..Len(normalized.teams) :
          LET ls == LeaderRows(AcceptedRowsOf(normalized.teams[k].unstopTeamId))
          IN /\ Len(ls) = 2
             /\ Member(ls[1]) # Member(ls[2])
             /\ normalized.teams[k].leader = LeaderOf(Member(ls[2]))
    /\ \E k \in 1..Len(normalized.teams) :
          /\ LeaderRows(AcceptedRowsOf(normalized.teams[k].unstopTeamId)) = <<>>
          /\ normalized.teams[k].leader.unset

\* the team ids of the accepted rows among the first n rows, each once, in
\* the order in which they first appear
RECURSIVE FirstAppearances(_)
FirstAppearances(n) ==
    IF n = 0 THEN <<>>
    ELSE LET before == FirstAppearances(n - 1)
         IN IF Accepted(n) /\ \A k \in 1..Len(before) : before[k] # rows[n].teamId
            THEN Append(before, rows[n].teamId)
            ELSE before

\* the row numbers (0-based index + 2) of the rows among the first n that are
\* neither holes nor accepted, in input order
RECURSIVE RejectedRowNumbers(_)
RejectedRowNumbers(n) ==
    IF n = 0 THEN <<>>
    ELSE IF BlankName(n) \/ BlankId(n)
         THEN Append(RejectedRowNumbers(n - 1), (n - 1) + 2)
         ELSE RejectedRowNumbers(n - 1)

\* C21: the aggregates come in the order in which their ids first appear
\* among the accepted rows, and the skipped rows in input order, each with
\* rowNumber = its 0-based input index + 2.
C21_OutputOrder ==
    normalized.done =>
        /\ [k \in 1..Len(normalized.teams) |-> normalized.teams[k].unstopTeamId]
              = FirstAppearances(Len(rows))
        /\ [k \in 1..Len(normalized.skippedRows) |-> normalized.skippedRows[k].rowNumber]
              = RejectedRowNumbers(Len(rows))

\* team B before team A, with a skipped row between them numbered 3
C21_Witness ==
    /\ normalized.done
    /\ Len(rows) = 3
    /\ Accepted(1) /\ BlankId(2) /\ Accepted(3)
    /\ Len(normalized.teams) = 2
    /\ normalized.teams[1].unstopTeamId = <<"B">>
    /\ normalized.teams[2].unstopTeamId = <<"A">>
    /\ Len(normalized.skippedRows) = 1
    /\ normalized.skippedRows[1].rowNumber = 3

\* a step in which importTeams returns
ImportReturns == imp.pc = "remove" /\ imp'.pc = "idle"

\* the import in flight repeats the upload that finished before it, both
\* with replaceAll
SameUploadAgain ==
    /\ importResult.done
    /\ importResult.replaceAll
    /\ importResult.errors = <<>>
    /\ importResult.rows = rows
    /\ imp.replaceAll

\* C22: normalizeTeamData + importTeams (replaceAll) run twice on the same
\* rows, no store operation failing, is idempotent: the second run returns
\* newTeams = 0, updatedTeams = the number of aggregates, removedTeams = 0, and
\* the teams, their internal keys, their members' data and their call logs
\* are what they were when the second run started.
C22_ReimportIdempotent ==
    [][(ImportReturns /\ SameUploadAgain)
        => (/\ importResult'.newTeams = 0
            /\ importResult'.updatedTeams = Len(normalized.teams)
            /\ importResult'.removedTeams = 0
            /\ importResult'.errors = <<>>
            /\ store' = imp.before)]_vars

C22_Witness ==
    /\ imp.pc = "remove" /\ imp.toRemove = {} /\ imp.next > Len(imp.teams)
    /\ SameUploadAgain
    /\ imp.updatedTeams = 2
    /\ Len(rows) = 2
    /\ \A t \in store.teams : Len(store.members[t.id]) = 1
    /\ DOMAIN store.callLogs # {}

\* the internal keys of the teams of a store
TeamKeys(st) == {t.id : t \in st.teams}

\* the external identifiers of the teams of a store
TeamIdentifiers(st) == {t.unstopTeamId : t \in st.teams}

\* the teams the import in flight found stored and its aggregates do not name
AbsentTeams == {t \in imp.before.teams : t.unstopTeamId \notin csvTeamIds(imp.teams)}

CallLogOf(st, id) == IF id \in DOMAIN st.callLogs THEN st.callLogs[id] ELSE NoLog

\* C24: every step of importTeams keeps, for each stored team that the
\* aggregates name, the team's internal key and external identifier and leaves
\* its call log as it was (status, lockedBy, lockedAt, calledBy, notes,
\* lastCalledAt), whether or not a store operation fails.
C24_KeyAndCallLogKept ==
    [][imp.pc = "remove" =>
        \A t \in store.teams :
            t.unstopTeamId \in csvTeamIds(imp.teams) =>
                /\ \E u \in store'.teams : u.id = t.id /\ u.unstopTeamId = t.unstopTeamId
                /\ (t.id \in DOMAIN store'.callLogs) = (t.id \in DOMAIN store.callLogs)
                /\ CallLogOf(store', t.id) = CallLogOf(store, t.id)]_vars

C24_Witness ==
    /\ imp.pc = "remove"
    /\ imp.updatedTeams = 1
    /\ \E t \in imp.before.teams : \E u \in store.teams :
          /\ u.id = t.id
          /\ u.unstopTeamId = t.unstopTeamId
          /\ u.teamName # t.teamName
          /\ u.teamSize # t.teamSize
          /\ u.verificationStatus # t.verificationStatus
          /\ store.members[u.id] # imp.before.members[t.id]
          /\ t.id \in DOMAIN imp.before.callLogs
          /\ CallLogOf(store, u.id) = imp.before.callLogs[t.id]
          /\ CallLogOf(store, u.id).callStatus = "CALLED_WILL_VERIFY"

\* the number of errors of one loop in an error list
ErrorCount(errors, op) == Cardinality({k \in 1..Len(errors) : errors[k].op = op})

\* C25: in importTeams a store failure while deleting or processing one team
\* is caught and recorded as one error, and the loop goes on to the next team:
\* every pass of a loop takes one team and adds one to exactly one of the
\* counters and the error list; when importTeams returns every aggregate has
\* been taken, newTeams + updatedTeams + the processing errors = the number of
\* aggregates, removedTeams + the removal errors = the number of teams to
\* remove, and the result carries the counts and the error list.
C25_FailuresCaught ==
    [][/\ (imp.pc = "remove" /\ imp'.pc = "remove") =>
            /\ Len(imp'.errors) \in {Len(imp.errors), Len(imp.errors) + 1}
            /\ \/ /\ Cardinality(imp'.toRemove) = Cardinality(imp.toRemove) - 1
                  /\ imp'.next = imp.next
                  /\ imp'.removedTeams + Len(imp'.errors) = imp.removedTeams + Len(imp.errors) + 1
               \/ /\ imp'.toRemove = imp.toRemove
                  /\ imp'.next = imp.next + 1
                  /\ imp'.newTeams + imp'.updatedTeams + Len(imp'.errors)
                        = imp.newTeams + imp.updatedTeams + Len(imp.errors) + 1
       /\ ImportReturns =>
            /\ imp.next = Len(imp.teams) + 1
            /\ imp.newTeams + imp.updatedTeams + ErrorCount(imp.errors, "process") = Len(imp.teams)
            /\ imp.removedTeams + ErrorCount(imp.errors, "remove")
                  = IF imp.replaceAll THEN Cardinality(AbsentTeams) ELSE 0
            /\ importResult'.done
            /\ importResult'.newTeams = imp.newTeams
            /\ importResult'.updatedTeams = imp.updatedTeams
            /\ importResult'.removedTeams = imp.removedTeams
            /\ importResult'.errors = imp.errors]_vars

C25_Witness ==
    /\ importResult.done
    /\ importResult.totalTeams = 2
    /\ imp.pc = "idle"
    /\ Len(normalized.teams) = 2
    /\ importResult.errors = <<ProcessError(normalized.teams[1])>>
    /\ importResult.newTeams = 0
    /\ importResult.updatedTeams = 1
    /\ \E t \in store.teams :
          /\ t.unstopTeamId = normalized.teams[2].unstopTeamId
          /\ store.members[t.id] = normalized.teams[2].members

\* C26: after any sequence of imports, with or without store failures, the
\* store holds at most one team per external identifier (and one per internal
\* key), and normalizeTeamData has returned at most one aggregate per
\* identifier.
C26_OneTeamPerIdentifier ==
    /\ \A t \in store.teams : \A u \in store.teams :
          (t.unstopTeamId = u.unstopTeamId \/ t.id = u.id) => t = u
    /\ \A j \in 1..Len(normalized.teams) : \A k \in 1..Len(normalized.teams) :
          normalized.teams[j].unstopTeamId = normalized.teams[k].unstopTeamId => j = k

C26_Witness ==
    /\ imp.pc = "idle"
    /\ imp.runs = 2
    /\ importResult.errors # <<>>
    /\ Cardinality(store.teams) = 2
    /\ rows = <<RowA1, RowA2>>
    /\ Len(normalized.teams) = 1

\* the digits of a string, in order
DigitsOf(str) == SelectSeq(str, IsDigit)

\* C27: normalizePhone returns '+' followed by the digits of its input, with
\* '91' in front of them whenever exactly 10 digits remain, whatever those 10
\* digits are.
C27_TenDigitsGetPrefix ==
    phoneResult.done =>
        phoneResult.value =
            <<"+">> \o (IF Len(DigitsOf(phoneInput)) = 10
                        THEN <<"9", "1">> \o DigitsOf(phoneInput)
                        ELSE DigitsOf(phoneInput))

\* the requests made to the provider so far, in order
IsSend(e) == e.kind = "send"
Sends == SelectSeq(mailTrace, IsSend)

\* the requests the provider refused
IsRefused(e) == e.kind = "send" /\ e.answer # ProviderOk
Refused == SelectSeq(mailTrace, IsRefused)

\* C28: a bulk dispatch attempts its recipients one at a time in list order,
\* each exactly once: the k-th request to the provider is for the k-th
\* recipient, a refused request is neither repeated nor the end of the loop,
\* and when the dispatch returns there has been one request per recipient,
\* sent + failed = the number of recipients, failed = the number of refused
\* requests, and errors holds one (email, error) pair per refused request.
C28_EveryRecipientOnce ==
    /\ \A k \in 1..Len(Sends) :
          /\ Sends[k].index = k
          /\ k <= Len(dispatch.recipients)
          /\ Sends[k].email = dispatch.recipients[k].email
    /\ dispatch.pc = "done" =>
          /\ Len(Sends) = Len(dispatch.recipients)
          /\ dispatch.sent + dispatch.failed = Len(dispatch.recipients)
          /\ dispatch.failed = Len(Refused)
          /\ dispatch.errors =
                [k \in 1..Len(Refused) |-> [email |-> Refused[k].email, error |-> Refused[k].answer]]

C28_Witness ==
    /\ dispatch.pc = "done"
    /\ Len(dispatch.recipients) = 5
    /\ \A k \in 1..5 : Sends[k].index = k /\ (Sends[k].answer = ProviderOk) = (k # 3)
    /\ dispatch.sent = 4
    /\ dispatch.failed = 1
    /\ dispatch.errors = <<[email |-> 3, error |-> "rate limit exceeded"]>>

\* C29: every request of a bulk dispatch appends exactly one Communication
\* Log row for its recipient, SENT when the provider accepted the email and
\* FAILED with the error text when it did not, for recipients resolved from the
\* store and for custom recipient lists alike: when the dispatch returns the
\* log has one row per recipient.
C29_OneLogRowPerAttempt ==
    /\ Len(commLog) = Len(Sends)
    /\ \A k \in 1..Len(commLog) :
          /\ k <= Len(Sends)
          /\ commLog[k].recipientEmail = Sends[k].email
          /\ commLog[k].status = IF Sends[k].answer = ProviderOk THEN "SENT" ELSE "FAILED"
          /\ commLog[k].errorMessage = IF Sends[k].answer = ProviderOk THEN Null ELSE Sends[k].answer
    /\ dispatch.pc = "done" => Len(commLog) = Len(dispatch.recipients)

\* C30: the pacing delay follows every request of a bulk dispatch: between
\* two requests to the provider that follow each other the delay has elapsed,
\* whether the earlier request was accepted or refused.
C30_DelayAfterEveryAttempt ==
    \A i \in 1..Len(mailTrace) :
        (mailTrace[i].kind = "send" /\ i < Len(mailTrace)) =>
            /\ mailTrace[i + 1].kind = "delay"
            /\ mailTrace[i + 1].ms = dispatch.delayMs

\* a step in which caller c's releaseLock writes the call log
ReleaseWrites(c) == ReleaseReturns(c) /\ ~NotOwner(req[c].existingLog, c)

\* C31: releaseLock never removes another caller's lock: when the update of
\* caller c's releaseLock runs while the team's call log holds a lock of
\* another caller younger than the timeout, that caller still holds the lock
\* after the update.
C31_ReleaseKeepsOthersLock ==
    [][\A c \in Callers :
         LET t == req[c].team IN
         (/\ ReleaseWrites(c)
          /\ callLog[t].lockedBy \in Callers \ {c}
          /\ now - callLog[t].lockedAt < LockTimeoutMs)
         => (/\ callLog'[t].lockedBy = callLog[t].lockedBy
             /\ callLog'[t].lockedAt = callLog[t].lockedAt
             /\ callLog'[t].callStatus = "BEING_CALLED")]_vars

\* the PENDING teams that have no call log or a call log with status NOT_CALLED
PendingNotCalled ==
    {t \in Teams : /\ verification[t] = "PENDING"
                   /\ (~callLog[t].exists \/ callLog[t].callStatus = "NOT_CALLED")}

\* C32: getCallStats returns six non-negative numbers, and notCalled is the
\* number of PENDING teams that have no call log or whose call log has status
\* NOT_CALLED.
C32_StatsNonNegative ==
    callStats # NoStats =>
        /\ callStats.total >= 0
        /\ callStats.notCalled >= 0
        /\ callStats.willVerify >= 0
        /\ callStats.notPicked >= 0
        /\ callStats.rejected >= 0
        /\ callStats.beingCalled >= 0
        /\ callStats.notCalled = Cardinality(PendingNotCalled)

\* the call log holds a lock taken more than the timeout ago
LockOlderThanTimeout(log) ==
    /\ Truthy(log.lockedBy)
    /\ log.lockedAt # NullTime
    /\ now - log.lockedAt > LockTimeoutMs

\* C33: the stale-lock sweep changes exactly the call logs with a non-empty
\* lockedBy and a lockedAt older than 5 minutes: on those it clears lockedBy
\* and lockedAt and sets the status to NOT_CALLED, leaving calledBy, notes and
\* lastCalledAt as they were; every other call log is left unchanged.
C33_SweepFrame ==
    [][\A c \in Callers :
         ListSweeps(c) =>
            \A t \in Teams :
                IF LockOlderThanTimeout(callLog[t])
                THEN /\ callLog'[t].lockedBy = Null
                     /\ callLog'[t].lockedAt = NullTime
                     /\ callLog'[t].callStatus = "NOT_CALLED"
                     /\ callLog'[t].exists
                     /\ callLog'[t].calledBy = callLog[t].calledBy
                     /\ callLog'[t].notes = callLog[t].notes
                     /\ callLog'[t].lastCalledAt = callLog[t].lastCalledAt
                ELSE callLog'[t] = callLog[t]]_vars

C33_Witness ==
    /\ req["Bob"].pc = "list_swept"
    /\ callLog["T1"].exists
    /\ callLog["T1"].lockedBy = Null
    /\ callLog["T1"].callStatus = "NOT_CALLED"
    /\ callLog["T1"].calledBy = "Bob"
    /\ callLog["T1"].lastCalledAt = 0
    /\ callLog["T2"].lockedBy = "Bob"
    /\ callLog["T2"].lockedAt = now - LockTimeoutMs

\* C34: the sweep and acquire agree on which locks are stale: when
\* lockTeamForCalling of caller c has read a lock of another caller, it
\* succeeds if and only if releaseStallLocks run at that instant would reset
\* the lock, whatever the lock's age, an age of exactly 5 minutes included.
C34_SweepAndAcquireAgree ==
    [][\A c \in Callers :
         LET e == req[c].existingLog IN
         (/\ LockReturns(c)
          /\ e.lockedBy \in Callers \ {c}
          /\ e.lockedAt # NullTime)
         => (response'.success <=> IsStale(e, now))]_vars

\* the step answers caller c's request with HTTP 400 and changes nothing else
Rejected(c, op, t) ==
    /\ response'.caller = c
    /\ response'.op = op
    /\ response'.team = t
    /\ response'.http = 400
    /\ ~response'.success
    /\ callLog' = callLog
    /\ req' = req

\* C35: a status update whose status is not one of CALLED_WILL_VERIFY,
\* CALLED_NOT_PICKED, CALLED_REJECTED, or that has no callerName, is answered
\* with HTTP 400 and leaves the call logs unchanged; so are a lock request and
\* a release request without callerName.
C35_BadRequestsRejected ==
    [][response' # response =>
       \A c \in scope.callers, t \in scope.teams :
         /\ \A b \in StatusBodies(c) :
               (/\ b.status \in {"NOT_CALLED", "BEING_CALLED"} \/ ~Truthy(b.callerName)
                /\ StatusRequest(c, t, b.status, b.callerName, b.notes))
               => Rejected(c, "status", t)
         /\ LockRequest(c, t, "") => Rejected(c, "lock", t)
         /\ ReleaseRequest(c, t, "") => Rejected(c, "release", t)]_vars

C35_Witness ==
    /\ response.op = "status"
    /\ response.http = 400
    /\ response.message = "Invalid status"
    /\ callLog[response.team].lockedBy = response.caller
    /\ callLog[response.team].callStatus = "BEING_CALLED"

RECURSIVE SizeTotal(_)
SizeTotal(teams) ==
    IF teams = <<>> THEN 0 ELSE Head(teams).teamSize + SizeTotal(Tail(teams))

\* the entries of skippedRows made for the row at 1-based position i
SkippedEntries(i) ==
    {k \in 1..Len(normalized.skippedRows) : normalized.skippedRows[k].rowNumber = i + 1}

\* the aggregates with the team id of the row at position i
TeamsOfRow(i) ==
    {k \in 1..Len(normalized.teams) : normalized.teams[k].unstopTeamId = rows[i].teamId}

\* C36: normalizeTeamData partitions its input: every non-null row is either
\* one member of exactly one aggregate or one skipped row, never both and
\* never twice, so that the number of skipped rows plus the sum of teamSize
\* over the aggregates is the number of non-null input rows (the number of
\* input rows when none is null).
C36_RowsPartitioned ==
    normalized.done =>
        /\ \A i \in 1..Len(rows) :
              /\ rows[i].isNull => SkippedEntries(i) = {}
              /\ Accepted(i) => (SkippedEntries(i) = {} /\ Cardinality(TeamsOfRow(i)) = 1)
              /\ (BlankName(i) \/ BlankId(i)) => Cardinality(SkippedEntries(i)) = 1
        /\ \A k \in 1..Len(normalized.teams) :
              /\ normalized.teams[k].teamSize = Len(normalized.teams[k].members)
              /\ normalized.teams[k].teamSize = Len(AcceptedRowsOf(normalized.teams[k].unstopTeamId))
        /\ Len(normalized.skippedRows) + SizeTotal(normalized.teams)
              = Cardinality({i \in 1..Len(rows) : ~rows[i].isNull})

C36_Witness ==
    /\ normalized.done
    /\ Len(rows) = 3
    /\ BlankName(1) /\ Accepted(2) /\ Accepted(3)
    /\ rows[2].teamId = rows[3].teamId
    /\ Len(normalized.skippedRows) = 1
    /\ Len(normalized.teams) = 1
    /\ normalized.teams[1].teamSize = 2

\* the import in flight has taken every team, with replaceAll and no error
FinishesClean ==
    /\ imp.pc = "remove" /\ imp.toRemove = {} /\ imp.next > Len(imp.teams)
    /\ imp.replaceAll
    /\ imp.errors = <<>>

\* C37: when importTeams with replaceAll = true returns with an empty error
\* list, the external identifiers of the stored teams are the identifiers of
\* the aggregates (no aggregate: no team and no call log), each identifier has
\* one stored team, and that team's member list is its aggregate's.
C37_StoreMatchesAggregates ==
    [][(ImportReturns /\ FinishesClean) =>
        /\ importResult'.errors = <<>>
        /\ TeamIdentifiers(store') = csvTeamIds(imp.teams)
        /\ Cardinality(store'.teams) = Len(imp.teams)
        /\ DOMAIN store'.members = TeamKeys(store')
        /\ DOMAIN store'.callLogs \subseteq TeamKeys(store')
        /\ \A k \in 1..Len(imp.teams) :
              \A t \in FindUnique(store', imp.teams[k].unstopTeamId) :
                  store'.members[t.id] = imp.teams[k].members
        /\ imp.teams = <<>> => (store'.teams = {} /\ DOMAIN store'.callLogs = {})]_vars

C37_Witness ==
    /\ FinishesClean
    /\ imp.teams = <<>>
    /\ imp.removedTeams = 2
    /\ DOMAIN imp.before.callLogs # {}
    /\ store.teams = {}
    /\ DOMAIN store.callLogs = {}

\* C38: in every state of the store reached by imports, those in which a
\* store operation fails part-way through a team's update included, each
\* team's stored teamSize is the number of its stored members.
C38_TeamSizeIsMemberCount ==
    \A t \in store.teams :
        /\ t.id \in DOMAIN store.members
        /\ t.teamSize = Len(store.members[t.id])

\* C39: when importTeams returns without errors, every team named in the
\* import is stored with the verification status of its aggregate, whatever
\* its status was before the import, a team an operator had set to VERIFIED
\* included.
C39_StatusFromAggregate ==
    [][(ImportReturns /\ imp.errors = <<>>) =>
        \A k \in 1..Len(imp.teams) :
            /\ FindUnique(store', imp.teams[k].unstopTeamId) # {}
            /\ \A t \in FindUnique(store', imp.teams[k].unstopTeamId) :
                  t.verificationStatus = imp.teams[k].verificationStatus]_vars

C39_Witness ==
    /\ imp.pc = "remove" /\ imp.toRemove = {} /\ imp.next > Len(imp.teams)
    /\ imp.errors = <<>>
    /\ imp.updatedTeams = 1
    /\ \E b \in imp.before.teams : \E t \in store.teams :
          /\ b.id = t.id
          /\ b.unstopTeamId = <<"B">>
          /\ b.verificationStatus = "VERIFIED"
          /\ t.verificationStatus = "PENDING"

====
